---- MODULE Spec2Model ----
(***************************************************************************)
(* Attendance analytics of Decarbo/dropout-BB:                             *)
(*   controllers/attendanceController.js  getStudentAttendance             *)
(*   routes/student.js                    PATCH /:id/attendance            *)
(*   models/Student.js                    the student's coarse counters    *)
(*                                                                         *)
(* Instants are whole seconds since 1970-01-01T00:00:00Z (a JS Date's time *)
(* value without its milliseconds).  Weights are kept doubled (present 2,  *)
(* late 1, absent 0) so that 0.5 stays an integer.                         *)
(***************************************************************************)
EXTENDS Integers, Sequences, FiniteSets, TLC

SecPerDay == 86400

(***************************************************************************)
(* Calendar arithmetic of the JS Date object (proleptic Gregorian).        *)
(***************************************************************************)

\* Day number (days since 1970-01-01) of the civil date y-m-d, m in 1..12.
\* d may lie outside the month: the day number simply runs on (MakeDay).
DaysFromCivil(y, m, d) ==
    LET yy  == IF m <= 2 THEN y - 1 ELSE y
        era == yy \div 400
        yoe == yy - era * 400
        mp  == IF m > 2 THEN m - 3 ELSE m + 9
        doy == (153 * mp + 2) \div 5 + d - 1
        doe == yoe * 365 + yoe \div 4 - yoe \div 100 + doy
    IN  era * 146097 + doe - 719468

\* The civil date <<y, m, d>> of a day number.
CivilFromDays(z) ==
    LET zz  == z + 719468
        era == zz \div 146097
        doe == zz - era * 146097
        yoe == (doe - doe \div 1460 + doe \div 36524 - doe \div 146096) \div 365
        doy == doe - (365 * yoe + yoe \div 4 - yoe \div 100)
        mp  == (5 * doy + 2) \div 153
        d   == doy - (153 * mp + 2) \div 5 + 1
        m   == IF mp < 10 THEN mp + 3 ELSE mp - 9
        y   == yoe + era * 400 + (IF m <= 2 THEN 1 ELSE 0)
    IN  <<y, m, d>>

\* Date.UTC(y, month0, d, h, mi, s), month0 zero-based as in JS.
DateUTC(y, month0, d, h, mi, s) ==
    DaysFromCivil(y, month0 + 1, d) * SecPerDay + h * 3600 + mi * 60 + s

\* The UTC calendar day (day number) of an instant.
UTCDay(t) == t \div SecPerDay

\* toISOString().split('T')[0], and $dateToString "%Y-%m-%d" in UTC: the
\* zero-padded text "YYYY-MM-DD", kept as its three fields.  Two such texts are
\* equal exactly when the fields are, and text order is field order.
ISODate(t) == CivilFromDays(UTCDay(t))

(***************************************************************************)
(* The server's time zone.  A zone is its standard and summer offsets and  *)
(* the instants (UTC) at which summer time starts and ends in 2025.        *)
(***************************************************************************)
ZoneUTC == [std |-> 0, dst |-> 0, dstStart |-> 0, dstEnd |-> 0]

\* Europe/Berlin in 2025: CEST from 2025-03-30T01:00Z to 2025-10-26T01:00Z.
ZoneBerlin ==
    [std |-> 3600, dst |-> 7200,
     dstStart |-> DateUTC(2025, 2, 30, 1, 0, 0),
     dstEnd   |-> DateUTC(2025, 9, 26, 1, 0, 0)]

\* Offset of local time from UTC at instant t.
LocalTZA(zone, t) ==
    IF zone.dstStart <= t /\ t < zone.dstEnd THEN zone.dst ELSE zone.std

\* Local wall-clock time of instant t.
LocalTime(zone, t) == t + LocalTZA(zone, t)

\* The instant of local wall-clock time w; a skipped or repeated wall-clock
\* time takes the offset in force before the transition.
UTCFromLocal(zone, w) ==
    IF w < zone.dstStart + zone.dst THEN w - zone.std
    ELSE IF w < zone.dstEnd + zone.dst THEN w - zone.dst
    ELSE w - zone.std

\* d.setDate(d.getDate() + delta): the local calendar day moves by delta,
\* the local time of day stays.
SetDateBy(zone, t, delta) ==
    UTCFromLocal(zone, LocalTime(zone, t) + delta * SecPerDay)

(***************************************************************************)
(* The 90-day window (attendanceController.js, step 2).                    *)
(***************************************************************************)

\* start.setDate(start.getDate() - 89): how far the window's start lies back.
WindowBack == 89

\* end: 23:59:59 UTC of the UTC calendar day of `now`.
WindowEnd(now) ==
    LET c == CivilFromDays(UTCDay(now))
    IN  DateUTC(c[1], c[2] - 1, c[3], 23, 59, 59)

\* start: a copy of end moved 89 local calendar days back.
WindowStart(zone, now) == SetDateBy(zone, WindowEnd(now), 0 - WindowBack)

\* The instants cur takes in `while (cur <= end) { ...; cur.setDate(cur.getDate() + 1) }`.
RECURSIVE WindowWalk(_, _, _)
WindowWalk(zone, cur, end) ==
    IF cur <= end
    THEN <<cur>> \o WindowWalk(zone, SetDateBy(zone, cur, 1), end)
    ELSE <<>>

\* dateStr = cur.toISOString().split('T')[0] at each of those instants.
WindowDates(zone, start, end) ==
    LET walk == WindowWalk(zone, start, end)
    IN  [i \in 1..Len(walk) |-> ISODate(walk[i])]

(***************************************************************************)
(* Attendance events and the aggregation pipeline (step 3).                *)
(* An event is [date, subjectCode, subjectName, status]; a field the       *)
(* document does not have holds Undefined.                                 *)
(***************************************************************************)
Undefined == "undefined"

\* $match: date: { $gte: start, $lte: end }.
Matched(events, start, end) == {e \in events : start <= e.date /\ e.date <= end}

\* $addFields dateStr and the $group key { dateStr, subjectCode }.
GroupKey(e) == <<ISODate(e.date), e.subjectCode>>

GroupOf(matched, key) == {e \in matched : GroupKey(e) = key}

\* $size of $filter of the pushed statuses equal to s (a missing status equals none).
CountStatus(group, s) == Cardinality({e \in group : e.status = s})

\* $group + $project: the row of one group; `first` is the document $first saw.
Row(matched, key, first) ==
    LET g == GroupOf(matched, key)
    IN  [dateStr     |-> key[1],
         subjectCode |-> key[2],
         subjectName |-> first.subjectName,
         present     |-> CountStatus(g, "present"),
         late        |-> CountStatus(g, "late"),
         absent      |-> CountStatus(g, "absent")]

\* The rows the pipeline can give for a group: $first depends on the order in
\* which the documents reach $group, which the pipeline does not fix.
RowsOf(matched, key) == {Row(matched, key, f) : f \in GroupOf(matched, key)}

\* Every sequence that holds one row of each group of keys, in any order.
RECURSIVE RowSequences(_, _)
RowSequences(matched, keys) ==
    IF keys = {} THEN {<<>>}
    ELSE UNION {{<<r>> \o rest : r \in RowsOf(matched, k),
                                 rest \in RowSequences(matched, keys \ {k})} :
                k \in keys}

\* Every result Attendance.aggregate([...]) can return: one row per group, the
\* groups in any order ($group does not order its output).
AggResults(events, start, end) ==
    LET matched == Matched(events, start, end)
    IN  RowSequences(matched, {GroupKey(e) : e \in matched})

(***************************************************************************)
(* The summary computed from the rows (event-derived path).                *)
(***************************************************************************)

\* Math.round(n / d * 100) for a denominator d > 0: the nearest integer, a
\* half rounding up.  n and d are integers here; within the bounds of this
\* model every quotient whose fraction is exactly one half is a binary
\* fraction, so the double arithmetic of JS gives the same integer.
RoundPercent(n, d) == (200 * n + d) \div (2 * d)

\* `x || dflt` for a string x that may be missing.
OrElse(x, dflt) == IF x = Undefined THEN dflt ELSE x

\* A faulty variant of TallyOf: the late test precedes the present test.
TallyLateFirst(row) ==
    IF row.late > 0 THEN "late"
    ELSE IF row.present > 0 THEN "present"
    ELSE "absent"

\* Which tally the if / else-if / else of the loop increments for a row.
TallyOf(row) ==
    IF row.present > 0 THEN "present"
    ELSE IF row.late > 0 THEN "late"
    ELSE "absent"

\* A faulty variant of DayValue: the late and absent branches overwrite the
\* day's value instead of keeping the larger of the old and the new one.
DayValueOverwrite(prev, row) ==
    IF row.present > 0 THEN 2
    ELSE IF row.late > 0 THEN 1
    ELSE 0

\* The new dayMap[row.dateStr] (doubled), prev being `dayMap[row.dateStr] || 0`.
DayValue(prev, row) ==
    IF row.present > 0 THEN 2
    ELSE IF row.late > 0 THEN (IF prev > 1 THEN prev ELSE 1)
    ELSE (IF prev > 0 THEN prev ELSE 0)

\* What the two ifs on row.present and row.late add to subjectMap[code].present
\* (doubled: 1 becomes 2, 0.5 becomes 1).
SubjectCredit(row) ==
    (IF row.present > 0 THEN 2 ELSE 0) + (IF row.late > 0 THEN 1 ELSE 0)

\* dayMap with key k set to v.
MapPut(map, k, v) ==
    [x \in DOMAIN map \cup {k} |-> IF x = k THEN v ELSE map[x]]

\* `map[k] || 0`.
MapGet(map, k) == IF k \in DOMAIN map THEN map[k] ELSE 0

\* subjectMap is kept as the sequence of its entries in insertion order, which
\* is the order Object.values gives.
SubjectIndex(subjectMap, code) ==
    IF \E i \in 1..Len(subjectMap) : subjectMap[i].code = code
    THEN CHOOSE i \in 1..Len(subjectMap) : subjectMap[i].code = code
    ELSE 0

\* The subjectMap update of one row.
SubjectPut(subjectMap, row) ==
    LET code  == OrElse(row.subjectCode, "general")
        fresh == [code |-> code, name |-> OrElse(row.subjectName, code),
                  present |-> 0, total |-> 0]
        sm    == IF SubjectIndex(subjectMap, code) = 0
                 THEN Append(subjectMap, fresh) ELSE subjectMap
        i     == SubjectIndex(sm, code)
    IN  [sm EXCEPT ![i].total = @ + 1, ![i].present = @ + SubjectCredit(row)]

\* The state of the loop's variables before the first row.
LoopStart ==
    [present |-> 0, absent |-> 0, late |-> 0, totalClasses |-> 0,
     dayMap |-> <<>>, subjectMap |-> <<>>]

\* One iteration of `for (const row of agg)`.
LoopStep(acc, row) ==
    [present      |-> acc.present + (IF TallyOf(row) = "present" THEN 1 ELSE 0),
     late         |-> acc.late    + (IF TallyOf(row) = "late"    THEN 1 ELSE 0),
     absent       |-> acc.absent  + (IF TallyOf(row) = "absent"  THEN 1 ELSE 0),
     totalClasses |-> acc.totalClasses + 1,
     dayMap       |-> MapPut(acc.dayMap, row.dateStr,
                             DayValue(MapGet(acc.dayMap, row.dateStr), row)),
     subjectMap   |-> SubjectPut(acc.subjectMap, row)]

\* The loop over the first n rows of agg.
RECURSIVE LoopOver(_, _)
LoopOver(agg, n) ==
    IF n = 0 THEN LoopStart ELSE LoopStep(LoopOver(agg, n - 1), agg[n])

\* overallPercentage = round((present + late * 0.5) / totalClasses * 100), or 0.
OverallPercentage(acc) ==
    IF acc.totalClasses > 0
    THEN RoundPercent(2 * acc.present + acc.late, 2 * acc.totalClasses)
    ELSE 0

\* monthlyBuckets: "YYYY-MM" -> {present, total}, from the entries of dayMap.
MonthKey(dateStr) == <<dateStr[1], dateStr[2]>>

MonthlyBuckets(dayMap) ==
    LET keys == {MonthKey(d) : d \in DOMAIN dayMap}
        days(k) == {d \in DOMAIN dayMap : MonthKey(d) = k}
        RECURSIVE Sum(_)
        Sum(D) == IF D = {} THEN 0
                  ELSE LET d == CHOOSE d \in D : TRUE IN dayMap[d] + Sum(D \ {d})
    IN  [k \in keys |-> [present |-> Sum(days(k)), total |-> Cardinality(days(k))]]

\* a[0].localeCompare(b[0]) < 0 on two "YYYY-MM" keys.
KeyBefore(a, b) == a[1] < b[1] \/ (a[1] = b[1] /\ a[2] < b[2])

\* .sort((a, b) => a[0].localeCompare(b[0])): the keys in ascending order.
RECURSIVE SortKeys(_)
SortKeys(K) ==
    IF K = {} THEN <<>>
    ELSE LET lo == CHOOSE k \in K : \A o \in K : o = k \/ KeyBefore(k, o)
         IN  <<lo>> \o SortKeys(K \ {lo})

\* .slice(-3).
TrendLength == 3

\* A faulty variant of SliceLast: .slice(0, 3), the oldest three.
SliceFirst(seq) ==
    IF Len(seq) <= TrendLength THEN seq
    ELSE SubSeq(seq, 1, TrendLength)

SliceLast(seq) ==
    IF Len(seq) <= TrendLength THEN seq
    ELSE SubSeq(seq, Len(seq) - TrendLength + 1, Len(seq))

\* toLocaleString('en-US', { month: 'short' }) of a date in month m (1..12).
MonthShort(m) ==
    <<"Jan", "Feb", "Mar", "Apr", "May", "Jun",
      "Jul", "Aug", "Sep", "Oct", "Nov", "Dec">>[m]

\* One monthly entry: Number(k.split('-')[1]) - 1 names the month of
\* new Date(year, monthNumber, 1), whose local month is that month.
MonthEntry(k, v) ==
    [month   |-> MonthShort(k[2]),
     percent |-> IF v.total # 0 THEN RoundPercent(v.present, 2 * v.total) ELSE 0]

Monthly(dayMap) ==
    LET b    == MonthlyBuckets(dayMap)
        kept == SliceLast(SortKeys(DOMAIN b))
    IN  [i \in 1..Len(kept) |-> MonthEntry(kept[i], b[kept[i]])]

\* subjects: Object.values(subjectMap).map(...).
Subjects(subjectMap) ==
    [i \in 1..Len(subjectMap) |->
        [name    |-> subjectMap[i].name,
         percent |-> IF subjectMap[i].total # 0
                     THEN RoundPercent(subjectMap[i].present, 2 * subjectMap[i].total)
                     ELSE 0]]

\* A faulty variant of HeatCell: the `=== 0.5` branch is missing, a late day
\* shows as 0.
HeatCellBinary(dayMap, dateStr) ==
    [date  |-> dateStr,
     value |-> IF dateStr \in DOMAIN dayMap /\ dayMap[dateStr] = 2 THEN 2 ELSE 0]

\* One heatmap entry of the event-derived path, dateStr being
\* cur.toISOString().split('T')[0]; value is doubled (2, 1 or 0).
HeatCell(dayMap, dateStr) ==
    [date  |-> dateStr,
     value |-> IF dateStr \in DOMAIN dayMap THEN dayMap[dateStr] ELSE 0]

\* dates: the dateStr of each instant cur takes in the loop over the window.
Heatmap(dayMap, dates) == [i \in 1..Len(dates) |-> HeatCell(dayMap, dates[i])]

\* The body of res.json on the event-derived path, acc being the loop's
\* variables after the last row.
EventSummary(acc, dates) ==
        [success           |-> TRUE,
         overallPercentage |-> OverallPercentage(acc),
         totalClasses      |-> acc.totalClasses,
         present           |-> acc.present,
         absent            |-> acc.absent,
         late              |-> acc.late,
         monthly           |-> Monthly(acc.dayMap),
         subjects          |-> Subjects(acc.subjectMap),
         heatmap           |-> Heatmap(acc.dayMap, dates)]

(***************************************************************************)
(* The fallback summary, from the student's coarse counters.               *)
(***************************************************************************)

\* subjMapFallback as the sequence of its entries in insertion order; each
\* subject of each semester either opens an entry (present 1, total 1) or adds
\* 1 to both counters of the entry of its code.
RECURSIVE FallbackSubjectMap(_, _)
FallbackSubjectMap(subjs, n) ==
    IF n = 0 THEN <<>>
    ELSE LET sm   == FallbackSubjectMap(subjs, n - 1)
             subj == subjs[n]
             i    == SubjectIndex(sm, subj.subjectCode)
         IN  IF i = 0
             THEN Append(sm, [code |-> subj.subjectCode,
                              name |-> OrElse(subj.subjectName, subj.subjectCode),
                              present |-> 2, total |-> 1])
             ELSE [sm EXCEPT ![i].present = @ + 2, ![i].total = @ + 1]

\* The subjects of all semesters of student.academics, in order.
RECURSIVE AllSubjects(_, _)
AllSubjects(academics, n) ==
    IF n = 0 THEN <<>>
    ELSE AllSubjects(academics, n - 1) \o academics[n].subjects

\* d.setMonth(d.getMonth() - i) on d = new Date(), then the short name of d's
\* local month: the local day of the month is kept, so a day the target month
\* does not have runs on into the following month.
FallbackMonthName(zone, now, i) ==
    LET c    == CivilFromDays(UTCDay(LocalTime(zone, now)))
        m0   == (c[2] - 1) - i
        yy   == IF m0 < 0 THEN c[1] - 1 ELSE c[1]
        mm   == IF m0 < 0 THEN m0 + 12 ELSE m0
        w    == DaysFromCivil(yy, mm + 1, c[3]) * SecPerDay
                    + (LocalTime(zone, now) % SecPerDay)
        d    == UTCFromLocal(zone, w)
    IN  MonthShort(CivilFromDays(UTCDay(LocalTime(zone, d)))[2])

\* fallbackOverall.
FallbackOverall(total, attended) ==
    IF total > 0 THEN RoundPercent(attended, total) ELSE 0

\* Math.random() * 100, floored, at the i-th draw of a request.  `stream`
\* names one of the sequences of draws the model explores; comparing the draw
\* with the integer fallbackOverall only needs its integer part.
RandomStreams == {"low", "high", "mixed"}

RandomDraw(stream, i) ==
    IF stream = "low" THEN 0
    ELSE IF stream = "high" THEN 99
    ELSE (i * 37) % 100

\* A faulty variant of FallbackCell: `rand <= fallbackOverall`.
FallbackCellInclusive(dateStr, rand, overall) ==
    [date |-> dateStr, value |-> IF rand <= overall THEN 2 ELSE 0]

\* One heatmap entry of the fallback path (value doubled: 2 or 0).
FallbackCell(dateStr, rand, overall) ==
    [date |-> dateStr, value |-> IF rand < overall THEN 2 ELSE 0]

FallbackHeatmap(dates, overall, stream) ==
    [i \in 1..Len(dates) |-> FallbackCell(dates[i], RandomDraw(stream, i), overall)]

\* The body of res.json on the fallback path.
FallbackSummary(student, zone, now, dates, stream) ==
    LET fallbackTotal   == student.totalClasses
        fallbackPresent == student.attendedClasses
        fallbackOverall == FallbackOverall(fallbackTotal, fallbackPresent)
        subjs           == AllSubjects(student.academics, Len(student.academics))
    IN  [success           |-> TRUE,
         overallPercentage |-> fallbackOverall,
         totalClasses      |-> fallbackTotal,
         present           |-> fallbackPresent,
         absent            |-> IF fallbackTotal - fallbackPresent > 0
                               THEN fallbackTotal - fallbackPresent ELSE 0,
         late              |-> 0,
         monthly           |-> [k \in 1..3 |->
                                  [month   |-> FallbackMonthName(zone, now, 3 - k),
                                   percent |-> fallbackOverall]],
         subjects          |-> Subjects(FallbackSubjectMap(subjs, Len(subjs))),
         heatmap           |-> FallbackHeatmap(dates, fallbackOverall, stream)]

(***************************************************************************)
(* Bounds and inputs of the exploration.                                   *)
(***************************************************************************)

\* Events in the store plus classes counted on the student record: how much
\* is written before the requests are looked at.
MaxLoad == 4

\* The instants at which requests are served, and the server's zone.
\* 2025-02-26 and 2025-04-29, 10:00 UTC: the window of the first runs over a
\* change of year, that of the second over four calendar months and over the
\* start of summer time.
Clocks == {DateUTC(2025, 1, 26, 10, 0, 0), DateUTC(2025, 3, 29, 10, 0, 0)}
Zones  == {ZoneUTC, ZoneBerlin}

\* An attendance document dated daysBack days before the day of `now`, at
\* second tod of that UTC day.
Ev(now, daysBack, tod, code, name, status) ==
    [date        |-> (UTCDay(now) - daysBack) * SecPerDay + tod,
     subjectCode |-> code, subjectName |-> name, status |-> status]

\* The documents the write path may store: the same class marked several
\* times, several subjects on a day, days on both sides of a month boundary,
\* the first day of the window, and documents missing a field.
EventMenu(now) ==
    {Ev(now, 0,  32400, "MATH", "Mathematics", "present"),
     Ev(now, 0,  50400, "MATH", Undefined,     "late"),
     Ev(now, 0,  36000, Undefined, Undefined,  "present"),
     Ev(now, 59, 32400, "PHY",  "Physics",     "absent"),
     Ev(now, 59, 36000, "MATH", "Mathematics", Undefined),
     Ev(now, 60, 32400, "PHY",  "Physics",     "late"),
     Ev(now, 88, 32400, "MATH", "Mathematics", "present"),
     Ev(now, 89, 36000, "MATH", "Mathematics", "present")}

\* The bodies of PATCH /:id/attendance: { attended, total }.
PatchBodies == {<<1, 1>>, <<1, 2>>, <<0, 1>>, <<1, 0>>}

\* student.academics of the student the model follows.
Academics ==
    <<[subjects |-> <<[subjectCode |-> "MATH", subjectName |-> "Mathematics"]>>],
      [subjects |-> <<[subjectCode |-> "MATH", subjectName |-> "Mathematics"],
                      [subjectCode |-> "PHY",  subjectName |-> "Physics"]>>]>>

(***************************************************************************)
(* State.                                                                  *)
(***************************************************************************)
VARIABLES
    now,       \* the server's clock: the instant `new Date()` gives
    zone,      \* the server's time zone
    student,   \* the Student document of req.user.id, or NoStudent
    events,    \* the Attendance documents of that student
    pc,        \* the handler: "idle", "aggregate" (awaiting the pipeline), "done"
    snap,      \* the student document the request fetched
    res,       \* the response of the request: [status, body]
    sent,      \* how many responses the request has sent
    branch,    \* which computation the request ran: "none", "events", "fallback"
    failed,    \* which read of the request rejected: "none", "findById", "aggregate"
    again      \* TRUE when a summary was already sent since the data last changed

vars == <<now, zone, student, events, pc, snap, res, sent, branch, failed, again>>

NoStudent  == [exists |-> FALSE]
NoBody     == [success |-> FALSE]
NoResponse == [status |-> 0, body |-> NoBody]

\* A new Student document: the schema's defaults for the counters.
NewStudent ==
    [exists |-> TRUE, totalClasses |-> 0, attendedClasses |-> 0,
     academics |-> Academics]

Load == Cardinality(events)
        + (IF student.exists THEN student.totalClasses + student.attendedClasses ELSE 0)

Init ==
    /\ now \in Clocks
    /\ zone \in Zones
    /\ student \in {NoStudent, NewStudent}
    /\ events = {}
    /\ pc = "idle"
    /\ snap = NoStudent
    /\ res = NoResponse
    /\ sent = 0
    /\ branch = "none"
    /\ failed = "none"
    /\ again = FALSE

(***************************************************************************)
(* The write paths.                                                        *)
(***************************************************************************)

\* An attendance document of the student is stored (the marking of a class).
RecordAttendance ==
    /\ pc = "idle"
    /\ student.exists
    /\ Load < MaxLoad
    /\ \E e \in EventMenu(now) \ events : events' = events \cup {e}
    /\ again' = FALSE
    /\ UNCHANGED <<now, zone, student, pc, snap, res, sent, branch, failed>>

\* PATCH /:id/attendance of an existing student: both counters grow by the
\* body's numbers and the document is saved.
PatchAttendance ==
    /\ pc = "idle"
    /\ student.exists
    /\ \E b \in PatchBodies :
          /\ Load + b[1] + b[2] <= MaxLoad
          /\ student' = [student EXCEPT !.attendedClasses = @ + b[1],
                                        !.totalClasses    = @ + b[2]]
    /\ again' = FALSE
    /\ UNCHANGED <<now, zone, events, pc, snap, res, sent, branch, failed>>

(***************************************************************************)
(* GET /api/students/attendance: getStudentAttendance.                     *)
(***************************************************************************)

\* res.status(code).json(body) / res.json(body).
Send(code, body) ==
    /\ res' = [status |-> code, body |-> body]
    /\ sent' = sent + 1

\* A faulty variant of AfterNotFound: the 404 is sent without `return`, and
\* the handler goes on to the aggregation.
AfterNotFoundFallsThrough == "aggregate"

\* Where the handler is after `return res.status(404).json(...)`.
AfterNotFound == "done"

\* Student.findById(...).lean() gives the document.
FindStudentFound ==
    /\ pc = "idle"
    /\ student.exists
    /\ snap' = student
    /\ pc' = "aggregate"
    /\ UNCHANGED <<now, zone, student, events, res, sent, branch, failed, again>>

\* Student.findById(...).lean() gives null: 404.
FindStudentMissing ==
    /\ pc = "idle"
    /\ ~student.exists
    /\ snap' = student
    /\ Send(404, [success |-> FALSE, message |-> "Student not found"])
    /\ pc' = AfterNotFound
    /\ UNCHANGED <<now, zone, student, events, branch, failed, again>>

\* Student.findById rejects (or req.user is missing): the catch block, 500.
FindStudentThrows ==
    /\ pc = "idle"
    /\ snap' = NoStudent
    /\ Send(500, [success |-> FALSE, message |-> "Server error"])
    /\ failed' = "findById"
    /\ pc' = "done"
    /\ UNCHANGED <<now, zone, student, events, branch, again>>

\* The summaries the event-derived path can send: one per non-empty result
\* of the pipeline (`if (agg.length > 0)`).
EventBodies(evs, z, t) ==
    LET start == WindowStart(z, t)
        end   == WindowEnd(t)
        dates == WindowDates(z, start, end)
        accs  == {LoopOver(agg, Len(agg)) :
                    agg \in {a \in AggResults(evs, start, end) : Len(a) > 0}}
    IN  {EventSummary(acc, dates) : acc \in accs}

\* The pipeline returns no row (agg.length is 0): no document passed $match.
NoRows(evs, z, t) == Matched(evs, WindowStart(z, t), WindowEnd(t)) = {}

\* The summaries the fallback path can send for a fetched student.
FallbackBodies(stu, z, t) ==
    LET dates == WindowDates(z, WindowStart(z, t), WindowEnd(t))
    IN  {FallbackSummary(stu, z, t, dates, stream) : stream \in RandomStreams}

\* Attendance.aggregate rejects: the catch block, 500.
AggregateThrows ==
    /\ pc = "aggregate"
    /\ Send(500, [success |-> FALSE, message |-> "Server error"])
    /\ failed' = "aggregate"
    /\ pc' = "done"
    /\ UNCHANGED <<now, zone, student, events, snap, branch, again>>

\* Attendance.aggregate returns rows: the summary is computed from them.
RespondFromEvents ==
    /\ pc = "aggregate"
    /\ \E body \in EventBodies(events, zone, now) : Send(200, body)
    /\ branch' = "events"
    /\ pc' = "done"
    /\ UNCHANGED <<now, zone, student, events, snap, failed, again>>

\* Attendance.aggregate returns no row: the summary is estimated from the
\* student document.  Reading the counters of a null student throws, and the
\* catch block answers 500.
RespondFromFallback ==
    /\ pc = "aggregate"
    /\ NoRows(events, zone, now)
    /\ IF snap.exists
       THEN \E body \in FallbackBodies(snap, zone, now) : Send(200, body)
       ELSE Send(500, [success |-> FALSE, message |-> "Server error"])
    /\ branch' = "fallback"
    /\ pc' = "done"
    /\ UNCHANGED <<now, zone, student, events, snap, failed, again>>

\* The request is over and its objects are dropped.
Finish ==
    /\ pc = "done"
    /\ pc' = "idle"
    /\ again' = (again \/ res.status = 200)
    /\ snap' = NoStudent /\ res' = NoResponse /\ sent' = 0
    /\ branch' = "none" /\ failed' = "none"
    /\ UNCHANGED <<now, zone, student, events>>

Next ==
    \/ RecordAttendance
    \/ PatchAttendance
    \/ FindStudentFound
    \/ FindStudentMissing
    \/ FindStudentThrows
    \/ AggregateThrows
    \/ RespondFromEvents
    \/ RespondFromFallback
    \/ Finish

Spec == Init /\ [][Next]_vars

(***************************************************************************)
(* Properties.                                                             *)
(***************************************************************************)

\* A summary has just been sent.
Answered == pc = "done" /\ res.status = 200

\* The UTC calendar days of the trailing window: today and the 89 days before.
WindowDays == (UTCDay(now) - WindowBack) .. UTCDay(now)

\* C1: in every summary sent, from events or from the fallback counters,
\* present + absent + late equals totalClasses.
C1_TalliesSumToTotal ==
    Answered =>
        res.body.present + res.body.absent + res.body.late = res.body.totalClasses

\* C2: in every summary sent, on either path, overallPercentage lies in
\* 0..100, and it is 0 when totalClasses is 0.
C2_OverallWithinRange ==
    Answered =>
        /\ res.body.overallPercentage \in 0..100
        /\ res.body.totalClasses = 0 => res.body.overallPercentage = 0

\* C3: on either path the heatmap has exactly 90 entries, the i-th dated the
\* i-th calendar day of the trailing window that ends today: the dates rise
\* strictly, with no gap and no duplicate.
C3_HeatmapCoversWindow ==
    Answered =>
        /\ Len(res.body.heatmap) = WindowBack + 1
        /\ \A i \in 1..Len(res.body.heatmap) :
              res.body.heatmap[i].date = CivilFromDays(UTCDay(now) - (WindowBack + 1) + i)

\* The groups of the student's events dated on a day of the window.
GroupsInWindowDays ==
    {GroupKey(e) : e \in {x \in events : UTCDay(x.date) \in WindowDays}}

\* C4: every event dated on one of the 90 days of the window, at any time of
\* day, is grouped: a summary is computed from events exactly when such an
\* event exists, and then counts one class per group of such events.
C4_QueryCoversWindow ==
    Answered =>
        /\ (branch = "events") = (GroupsInWindowDays # {})
        /\ branch = "events" => res.body.totalClasses = Cardinality(GroupsInWindowDays)

\* The events the request's query matches, and their groups.
QueryEvents == Matched(events, WindowStart(zone, now), WindowEnd(now))

Groups == {GroupKey(e) : e \in QueryEvents}

\* Group k holds an event of status s.
Has(k, s) == \E e \in QueryEvents : GroupKey(e) = k /\ e.status = s

\* The resolved weight of a group, doubled: present 2, else late 1, else 0.
GroupWeight(k) == IF Has(k, "present") THEN 2 ELSE IF Has(k, "late") THEN 1 ELSE 0

RECURSIVE SumGroupWeights(_)
SumGroupWeights(K) ==
    IF K = {} THEN 0
    ELSE LET k == CHOOSE x \in K : TRUE
         IN  GroupWeight(k) + SumGroupWeights(K \ {k})

\* Every summary a request can be answered with on the present data.
PossibleBodies ==
    IF NoRows(events, zone, now)
    THEN FallbackBodies(snap, zone, now)
    ELSE EventBodies(events, zone, now)

\* The dates of a heatmap, in order.
HeatDates(h) == [i \in 1..Len(h) |-> h[i].date]

\* How many entries of subjects show percent p.
PercentCount(subjects, p) ==
    Cardinality({i \in 1..Len(subjects) : subjects[i].percent = p})

\* a and b agree in the five counters and in monthly.
SameTotals(a, b) ==
    /\ a.overallPercentage = b.overallPercentage
    /\ a.totalClasses = b.totalClasses
    /\ a.present = b.present /\ a.absent = b.absent /\ a.late = b.late
    /\ a.monthly = b.monthly

WellFormed(e) == e.subjectCode # Undefined /\ e.status # Undefined

\* C6: events missing subjectCode or status are left out of the grouping and
\* do not abort the computation: the summary sent is one the well-formed
\* events alone give.
C6_MalformedExcluded ==
    LET good == {e \in events : WellFormed(e)}
    IN  /\ (pc = "done" /\ failed = "none" /\ snap.exists) => res.status = 200
        /\ Answered =>
              res.body \in
                 (IF NoRows(good, zone, now)
                  THEN FallbackBodies(snap, zone, now)
                  ELSE EventBodies(good, zone, now))

\* The fields of a summary besides `success`.
SummaryFields ==
    {"overallPercentage", "totalClasses", "present", "absent", "late",
     "monthly", "subjects", "heatmap"}

\* C7: a request is answered once and all or nothing: 404 and no computation
\* when the student does not exist, 500 without any summary field when a read
\* fails, and a summary only when the student exists and both reads succeeded.
C7_AllOrNothing ==
    /\ sent <= 1
    /\ pc = "aggregate" => sent = 0
    /\ pc = "done" =>
          /\ sent = 1
          /\ res.status \in {200, 404, 500}
          /\ (failed = "none" /\ ~student.exists) =>
                (res.status = 404 /\ branch = "none")
          /\ failed # "none" => (res.status = 500 /\ branch = "none")
          /\ res.status = 200 =>
                /\ student.exists /\ snap.exists /\ failed = "none"
                /\ branch \in {"events", "fallback"}
                /\ SummaryFields \subseteq DOMAIN res.body
          /\ res.status # 200 => DOMAIN res.body \cap SummaryFields = {}

\* C7 witness: the event query fails while events are stored, and the one
\* response is the failure.
C7_Witness ==
    pc = "done" /\ failed = "aggregate" /\ QueryEvents # {} /\ res.status = 500

\* The dates (as dateStr) on which the query found a group, the heaviest
\* resolved weight among a date's groups, and the year-months of the dates.
GroupDates == {k[1] : k \in Groups}

DateWeight(d) ==
    IF \E k \in Groups : k[1] = d /\ GroupWeight(k) = 2 THEN 2
    ELSE IF \E k \in Groups : k[1] = d /\ GroupWeight(k) = 1 THEN 1
    ELSE 0

GroupMonths == {<<d[1], d[2]>> : d \in GroupDates}

\* Year-month a comes before year-month b.
MonthBefore(a, b) == a[1] < b[1] \/ (a[1] = b[1] /\ a[2] < b[2])

\* The year-months with a group that fewer than three others follow.
RecentMonths ==
    {m \in GroupMonths : Cardinality({o \in GroupMonths : MonthBefore(m, o)}) < 3}

\* The place of month m among the recent months, counted from the oldest.
MonthRank(m) == 1 + Cardinality({o \in RecentMonths : MonthBefore(o, m)})

RECURSIVE SumDateWeights(_)
SumDateWeights(D) ==
    IF D = {} THEN 0
    ELSE LET d == CHOOSE x \in D : TRUE
         IN  DateWeight(d) + SumDateWeights(D \ {d})

DatesOfMonth(m) == {d \in GroupDates : <<d[1], d[2]>> = m}

\* C8: from events, monthly holds at most 3 entries, oldest first: one for
\* each of the (up to three) latest year-months in which the query found a
\* group, and no other; a month's entry averages the weights of its distinct
\* dates, each date counted once however many subjects it has.
C8_MonthlyRecentMonths ==
    (Answered /\ branch = "events") =>
        /\ Len(res.body.monthly) <= 3
        /\ Len(res.body.monthly) = Cardinality(RecentMonths)
        /\ \A m \in RecentMonths :
              res.body.monthly[MonthRank(m)] =
                 [month   |-> MonthShort(m[2]),
                  percent |-> RoundPercent(SumDateWeights(DatesOfMonth(m)),
                                           2 * Cardinality(DatesOfMonth(m)))]

\* C8 witness: groups in four year-months, two of them on the two sides of a
\* month boundary; three entries are sent.
C8_Witness ==
    /\ Answered /\ branch = "events"
    /\ Cardinality(GroupMonths) = 4
    /\ Len(res.body.monthly) = 3
    /\ \E e1, e2 \in QueryEvents :
          /\ UTCDay(e2.date) = UTCDay(e1.date) + 1
          /\ ISODate(e1.date)[2] # ISODate(e2.date)[2]

\* The subject codes of the groups, a missing code read as "general".
GroupCodes == {OrElse(k[2], "general") : k \in Groups}

GroupsOfCode(c) == {k \in Groups : OrElse(k[2], "general") = c}

\* round(sum of resolved weights / number of groups * 100) of a subject.
CodePercent(c) ==
    RoundPercent(SumGroupWeights(GroupsOfCode(c)), 2 * Cardinality(GroupsOfCode(c)))

\* C9: from events, each group adds its resolved weight (1, 0.5 or 0) and one
\* occurrence to its subject, so the subjects are one entry per subject code
\* with percent round(weight sum / groups * 100), each percent in 0..100.
C9_SubjectWeights ==
    (Answered /\ branch = "events") =>
        /\ Len(res.body.subjects) = Cardinality(GroupCodes)
        /\ \A c \in GroupCodes :
              \E i \in 1..Len(res.body.subjects) :
                 res.body.subjects[i].percent = CodePercent(c)
        /\ \A i \in 1..Len(res.body.subjects) :
              /\ res.body.subjects[i].percent \in 0..100
              /\ \E c \in GroupCodes : res.body.subjects[i].percent = CodePercent(c)

\* The example of the claim: day 1 MATH present, day 1 MATH late, day 2 PHY absent.
ExampleEvents ==
    {Ev(now, 0,  32400, "MATH", "Mathematics", "present"),
     Ev(now, 0,  50400, "MATH", Undefined,     "late"),
     Ev(now, 59, 32400, "PHY",  "Physics",     "absent")}

\* C10: from events, each group adds 1 to exactly one tally: to present when
\* it holds a present event, else to late when it holds a late one, else to
\* absent, whatever the number of its events; the example gives
\* totalClasses 2, present 1, late 0, absent 1, overallPercentage 50.
C10_TallyByPriority ==
    (Answered /\ branch = "events") =>
        /\ res.body.totalClasses = Cardinality(Groups)
        /\ res.body.present = Cardinality({k \in Groups : Has(k, "present")})
        /\ res.body.late =
              Cardinality({k \in Groups : ~Has(k, "present") /\ Has(k, "late")})
        /\ res.body.absent =
              Cardinality({k \in Groups : ~Has(k, "present") /\ ~Has(k, "late")})
        /\ events = ExampleEvents =>
              /\ res.body.totalClasses = 2 /\ res.body.present = 1
              /\ res.body.late = 0 /\ res.body.absent = 1
              /\ res.body.overallPercentage = 50

\* C10 witness: the example's events are the store and its summary is sent.
C10_Witness ==
    Answered /\ branch = "events" /\ events = ExampleEvents

\* For each date with a group, the largest resolved weight (doubled) among
\* the groups of the date.
DayWeights ==
    LET q == QueryEvents
        on(d, st) == \E e \in q : ISODate(e.date) = d /\ e.status = st
    IN  [d \in {ISODate(e.date) : e \in q} |->
            IF on(d, "present") THEN 2 ELSE IF on(d, "late") THEN 1 ELSE 0]

\* C11: from events, every heatmap entry shows the largest resolved weight
\* among the groups of its date (0 when the date has no group), no group's
\* date is missing from the heatmap.  RespondFromEvents answers with the
\* summary of any order of the rows, so this is stated of every processing
\* order, and the values it requires depend on the events alone.
C11_HeatmapDayMaximum ==
    (Answered /\ branch = "events") =>
        LET weights == DayWeights
            shown   == {res.body.heatmap[i].date : i \in 1..Len(res.body.heatmap)}
        IN  /\ \A i \in 1..Len(res.body.heatmap) :
                  LET d == res.body.heatmap[i].date
                  IN  res.body.heatmap[i].value =
                         (IF d \in DOMAIN weights THEN weights[d] ELSE 0)
            /\ DOMAIN weights \subseteq shown

\* C11 witness: a date with a late group and a present group, shown as
\* present, and a date whose only group is late, shown as late.
C11_Witness ==
    /\ Answered /\ branch = "events"
    /\ \E k1, k2 \in Groups :
          /\ k1[1] = k2[1] /\ GroupWeight(k1) = 1 /\ GroupWeight(k2) = 2
          /\ \E i \in 1..Len(res.body.heatmap) :
                res.body.heatmap[i].date = k1[1] /\ res.body.heatmap[i].value = 2
    /\ \E k \in Groups :
          /\ DateWeight(k[1]) = 1
          /\ \E i \in 1..Len(res.body.heatmap) :
                res.body.heatmap[i].date = k[1] /\ res.body.heatmap[i].value = 1

\* The subject codes of the fetched student's academics, and the names a code
\* may be shown under.
KnownCodes ==
    UNION {{snap.academics[i].subjects[j].subjectCode :
               j \in DOMAIN snap.academics[i].subjects} :
           i \in DOMAIN snap.academics}

NamesOfCode(c) ==
    {c} \cup UNION {{snap.academics[i].subjects[j].subjectName :
                        j \in {x \in DOMAIN snap.academics[i].subjects :
                                  snap.academics[i].subjects[x].subjectCode = c}} :
                    i \in DOMAIN snap.academics}

\* C12: a summary comes from exactly one of the two computations, and from
\* the fallback exactly when the query gave no group; the fallback summary
\* has absent = max(0, totalClasses - attendedClasses), late = 0, one subject
\* entry per distinct known subject code, each at 100, three monthly entries
\* each at overallPercentage, and heatmap values 0 or 1 only (doubled here:
\* 0 or 2), all 0 when totalClasses is 0.
C12_FallbackSummary ==
    Answered =>
        /\ branch \in {"events", "fallback"}
        /\ sent = 1
        /\ (branch = "fallback") = (Groups = {})
        /\ branch = "fallback" =>
              LET b    == res.body
                  diff == snap.totalClasses - snap.attendedClasses
              IN  /\ b.absent = (IF diff > 0 THEN diff ELSE 0)
                  /\ b.late = 0
                  /\ Len(b.subjects) = Cardinality(KnownCodes)
                  /\ \A i \in 1..Len(b.subjects) : b.subjects[i].percent = 100
                  /\ \A c \in KnownCodes :
                        Cardinality({i \in 1..Len(b.subjects) :
                                        b.subjects[i].name \in NamesOfCode(c)}) = 1
                  /\ Len(b.monthly) = 3
                  /\ \A i \in 1..Len(b.monthly) :
                        b.monthly[i].percent = b.overallPercentage
                  /\ \A i \in 1..Len(b.heatmap) : b.heatmap[i].value \in {0, 2}
                  /\ snap.totalClasses = 0 =>
                        \A i \in 1..Len(b.heatmap) : b.heatmap[i].value = 0

\* C12 witness: a fallback summary of a student with more classes held than
\* attended, whose heatmap shows both values.
C12_Witness ==
    /\ Answered /\ branch = "fallback"
    /\ snap.totalClasses > snap.attendedClasses /\ snap.attendedClasses > 0
    /\ res.body.absent > 0
    /\ \E i, j \in 1..Len(res.body.heatmap) :
          res.body.heatmap[i].value = 0 /\ res.body.heatmap[j].value = 2

\* The calendar month (1..12) of the request's instant in the server's zone,
\* and the month i months before it.
CurrentMonth == CivilFromDays(UTCDay(LocalTime(zone, now)))[2]

MonthsBack(i) == ((CurrentMonth - 1 - i) % 12) + 1

\* C13: on the fallback path, whatever the day of the month, the three
\* monthly entries are labelled with the month two before the current one,
\* the month before it and the current month, in this order: three distinct
\* consecutive months ending with the current one.
C13_FallbackMonthsConsecutive ==
    (Answered /\ branch = "fallback") =>
        /\ Len(res.body.monthly) = 3
        /\ \A k \in 1..3 : res.body.monthly[k].month = MonthShort(MonthsBack(3 - k))

====
